---- MODULE Spec2Model ----
(***************************************************************************)
(* Report uploader (server.js): an HTML report is classified into one of   *)
(* fifteen folders, rendered to PDF in a disposable browser and written    *)
(* to a GridFS bucket; stored reports are listed, streamed and deleted.    *)
(*                                                                         *)
(* JavaScript strings are modelled as sequences of one-character strings,  *)
(* JavaScript values as records [t |-> typeof, s |-> String(value)].       *)
(***************************************************************************)
EXTENDS Integers, Sequences, FiniteSets, TLC

\* ------------------------------------------------------------------ bounds
\* submit requests of the pipeline and store systems
MaxSubmits == 1
\* concurrent submit requests of the race, reissue and listing systems
MaxRacers == 2
\* delete requests
MaxDeletes == 2
\* the last value of the millisecond clock
MaxClock == 2

\* ------------------------------------------------------------ JS values
Undefined == [t |-> "undefined", s |-> <<"u","n","d","e","f","i","n","e","d">>]
Null == [t |-> "null", s |-> <<"n","u","l","l">>]
Str(s) == [t |-> "string", s |-> s]
Num(s) == [t |-> "number", s |-> s]
\* a function object (Object, Object.prototype.toString, ...)
Fn(s) == [t |-> "function", s |-> s]
\* a non-function object (Object.prototype)
Obj(s) == [t |-> "object", s |-> s]

\* ToBoolean(v), as used by &&, || and !
Truthy(v) ==
  CASE v.t = "undefined" -> FALSE
    [] v.t = "null" -> FALSE
    [] v.t = "string" -> v.s # <<>>
    [] v.t = "number" -> v.s \notin {<<"0">>, <<"N","a","N">>}
    [] v.t = "boolean" -> v.s = <<"t","r","u","e">>
    [] OTHER -> TRUE

DigitChars == <<"0","1","2","3","4","5","6","7","8","9">>
LowerChars == {"a","b","c","d","e","f","g","h","i","j","k","l","m","n","o","p","q","r","s","t","u","v","w","x","y","z"}
UpperChars == {"A","B","C","D","E","F","G","H","I","J","K","L","M","N","O","P","Q","R","S","T","U","V","W","X","Y","Z"}
IsDigit(c) == \E i \in 1..10 : DigitChars[i] = c
DigitVal(c) == (CHOOSE i \in 1..10 : DigitChars[i] = c) - 1
\* the regular expression class \s (the members that occur in the inputs)
IsSpace(c) == c \in {" ", "\t", "\n"}
\* the regular expression class \w
IsWord(c) == c \in LowerChars \/ c \in UpperChars \/ IsDigit(c) \/ c = "_"

\* String(n) for a non-negative integer n
RECURSIVE Digits(_)
Digits(n) == IF n < 10 THEN <<DigitChars[n + 1]>>
             ELSE Digits(n \div 10) \o <<DigitChars[(n % 10) + 1]>>

\* String.prototype.trim (leading side; trailing side below)
RECURSIVE TrimLeft(_)
TrimLeft(s) == IF s # <<>> /\ IsSpace(Head(s)) THEN TrimLeft(Tail(s)) ELSE s
RECURSIVE TrimRight(_)
TrimRight(s) == IF s # <<>> /\ IsSpace(s[Len(s)]) THEN TrimRight(SubSeq(s, 1, Len(s) - 1)) ELSE s
trim(s) == TrimRight(TrimLeft(s))

\* the longest prefix of decimal digits of s, as a number (acc is the value so far)
RECURSIVE DigitPrefix(_, _)
DigitPrefix(s, acc) == IF s # <<>> /\ IsDigit(Head(s))
                       THEN DigitPrefix(Tail(s), acc * 10 + DigitVal(Head(s)))
                       ELSE acc

\* parseInt(v, 10): String(v), leading white space skipped, an optional sign,
\* then the longest digit prefix; NaN when there is no digit.
parseInt(v) ==
  LET s0 == TrimLeft(v.s)
      neg == s0 # <<>> /\ Head(s0) = "-"
      s1 == IF s0 # <<>> /\ Head(s0) \in {"-", "+"} THEN Tail(s0) ELSE s0
  IN IF s1 = <<>> \/ ~IsDigit(Head(s1))
     THEN [nan |-> TRUE, n |-> 0]
     ELSE [nan |-> FALSE, n |-> IF neg THEN 0 - DigitPrefix(s1, 0) ELSE DigitPrefix(s1, 0)]

\* ------------------------------------------------------- folder taxonomy

K_liquid_ir == <<"l","i","q","u","i","d","_","i","r">>
K_draining_dry_ir == <<"d","r","a","i","n","i","n","g","_","d","r","y","_","i","r">>
K_final_dimension_ir == <<"f","i","n","a","l","_","d","i","m","e","n","s","i","o","n","_","i","r">>
K_hydrostatic_ir == <<"h","y","d","r","o","s","t","a","t","i","c","_","i","r">>
K_penetrating_oil_ir == <<"p","e","n","e","t","r","a","t","i","n","g","_","o","i","l","_","i","r">>
K_pickling_pass_ir == <<"p","i","c","k","l","i","n","g","_","p","a","s","s","_","i","r">>
K_raw_material_ir == <<"r","a","w","_","m","a","t","e","r","i","a","l","_","i","r">>
K_rf_pad_ir == <<"r","f","_","p","a","d","_","i","r">>
K_stage_ir == <<"s","t","a","g","e","_","i","r">>
K_surface_prep_paint_ir == <<"s","u","r","f","a","c","e","_","p","r","e","p","_","p","a","i","n","t","_","i","r">>
K_vacuum_ir == <<"v","a","c","u","u","m","_","i","r">>
K_visual_exam_ir == <<"v","i","s","u","a","l","_","e","x","a","m","_","i","r">>
K_extra1 == <<"e","x","t","r","a","1">>
K_extra2 == <<"e","x","t","r","a","2">>
K_extra3 == <<"e","x","t","r","a","3">>

\* the own properties of the object literal reportTypeToFolder
reportTypeToFolderOwn ==
  (K_liquid_ir :> 1)
  @@ (K_draining_dry_ir :> 2)
  @@ (K_final_dimension_ir :> 3)
  @@ (K_hydrostatic_ir :> 4)
  @@ (K_penetrating_oil_ir :> 5)
  @@ (K_pickling_pass_ir :> 6)
  @@ (K_raw_material_ir :> 7)
  @@ (K_rf_pad_ir :> 8)
  @@ (K_stage_ir :> 9)
  @@ (K_surface_prep_paint_ir :> 10)
  @@ (K_vacuum_ir :> 11)
  @@ (K_visual_exam_ir :> 12)
  @@ (K_extra1 :> 13)
  @@ (K_extra2 :> 14)
  @@ (K_extra3 :> 15)

\* properties every object literal inherits from Object.prototype (a selection)
K_constructor == <<"c","o","n","s","t","r","u","c","t","o","r">>
K_toString == <<"t","o","S","t","r","i","n","g">>
K_proto == <<"_","_","p","r","o","t","o","_","_">>
ObjectPrototype ==
  (K_constructor :> Fn(K_constructor))
  @@ (K_toString :> Fn(K_toString))
  @@ (K_proto :> Obj(K_proto))

\* reportTypeToFolder[reportType]: the property key is String(reportType)
reportTypeToFolder(reportType) ==
  IF reportType.s \in DOMAIN reportTypeToFolderOwn
  THEN Num(Digits(reportTypeToFolderOwn[reportType.s]))
  ELSE IF reportType.s \in DOMAIN ObjectPrototype
       THEN ObjectPrototype[reportType.s]
       ELSE Undefined

\* folderNumber with the raw folder consulted before the report type
folderNumberRawFirst(reportType, folder) ==
  IF (folder.t = "number" \/ (folder.t = "string" /\ trim(folder.s) # <<>>))
     /\ ~parseInt(folder).nan /\ parseInt(folder).n >= 1 /\ parseInt(folder).n <= 15
  THEN Num(Digits(parseInt(folder).n))
  ELSE IF Truthy(reportType) /\ Truthy(reportTypeToFolder(reportType))
       THEN reportTypeToFolder(reportType)
       ELSE Null

\* the value of folderNumber after "resolve folder number" (null when unresolved)
folderNumber(reportType, folder) ==
  IF Truthy(reportType) /\ Truthy(reportTypeToFolder(reportType))
  THEN reportTypeToFolder(reportType)
  ELSE IF folder.t = "number" \/ (folder.t = "string" /\ trim(folder.s) # <<>>)
       THEN LET f == parseInt(folder)
            IN IF ~f.nan /\ f.n >= 1 /\ f.n <= 15 THEN Num(Digits(f.n)) ELSE Null
       ELSE Null

\* ------------------------------------------------- title and file name
TitleCap == 150
K_Report == <<"R","e","p","o","r","t">>

\* s.replace(/</g, "")
StripLt(s) == SelectSeq(s, LAMBDA c : c # "<")

\* s.slice(0, n)
slice(s, n) == SubSeq(s, 1, IF Len(s) < n THEN Len(s) ELSE n)

resolvedTitle(body) ==
  LET v == IF Truthy(body.reportTitle) THEN body.reportTitle
           ELSE IF Truthy(body.reportType) THEN body.reportType
           ELSE Str(K_Report)
  IN slice(StripLt(v.s), TitleCap)

\* s.replace(/\s+/g, "_"): every maximal run of white space becomes one "_"
RECURSIVE CollapseSpace(_)
CollapseSpace(s) ==
  IF s = <<>> THEN <<>>
  ELSE IF IsSpace(Head(s)) THEN <<"_">> \o CollapseSpace(TrimLeft(s))
  ELSE <<Head(s)>> \o CollapseSpace(Tail(s))

\* s.replace(/[^\w\-_.]/g, "")
RECURSIVE StripUnsafe(_)
StripUnsafe(s) ==
  IF s = <<>> THEN <<>>
  ELSE IF IsWord(Head(s)) \/ Head(s) \in {"-", "."} THEN <<Head(s)>> \o StripUnsafe(Tail(s))
  ELSE StripUnsafe(Tail(s))

safeNameBase(body) ==
  StripUnsafe(IF Truthy(body.reportType) /\ body.reportType.t = "string"
              THEN body.reportType.s
              ELSE CollapseSpace(resolvedTitle(body)))

\* `${safeNameBase}-${Date.now()}.pdf`
filename(body, clock) ==
  safeNameBase(body) \o <<"-">> \o Digits(clock) \o <<".","p","d","f">>

\* the value the driver stores for metadata.folder: BSON drops a function-valued
\* field, an object is stored as a sub-document
bsonFolder(v) == IF v.t = "function" THEN Undefined ELSE v

\* ------------------------------------------------------ document shell
\* the template literal of fullHtml, cut at ${resolvedTitle} and ${html}
ShellHead ==
  <<"\n"," "," "," "," "," "," ","<","!","D","O","C","T","Y","P","E"," ","h","t","m","l",">",
    "\n"," "," "," "," "," "," ","<","h","t","m","l",">","\n"," "," "," "," "," "," "," "," ",
    "<","h","e","a","d",">","\n"," "," "," "," "," "," "," "," "," "," ","<","m","e","t","a",
    " ","c","h","a","r","s","e","t","=","\"","U","T","F","-","8","\"",">","\n"," "," "," "," ",
    " "," "," "," "," "," ","<","t","i","t","l","e",">">>

ShellMid ==
  <<"<","/","t","i","t","l","e",">","\n"," "," "," "," "," "," "," "," "," "," ","<","s","t",
    "y","l","e",">","\n"," "," "," "," "," "," "," "," "," "," "," "," ","h","t","m","l",",",
    " ","b","o","d","y"," ","{","\n"," "," "," "," "," "," "," "," "," "," "," "," "," "," ",
    "m","a","r","g","i","n",":"," ","0",";","\n"," "," "," "," "," "," "," "," "," "," "," ",
    " "," "," ","p","a","d","d","i","n","g",":"," ","0",";","\n"," "," "," "," "," "," "," ",
    " "," "," "," "," "," "," ","f","o","n","t","-","f","a","m","i","l","y",":"," ","'","S","e",
    "g","o","e"," ","U","I","'",","," ","A","r","i","a","l",","," ","s","a","n","s","-","s","e",
    "r","i","f",";","\n"," "," "," "," "," "," "," "," "," "," "," "," "," "," ","f","o","n",
    "t","-","s","i","z","e",":"," ","1","2","p","t",";","\n"," "," "," "," "," "," "," "," ",
    " "," "," "," "," "," ","c","o","l","o","r",":"," ","#","0","0","0",";","\n"," "," "," ",
    " "," "," "," "," "," "," "," "," ","}","\n"," "," "," "," "," "," "," "," "," "," "," ",
    " ","i","n","p","u","t",","," ","t","e","x","t","a","r","e","a",","," ","s","e","l","e","c",
    "t"," ","{","\n"," "," "," "," "," "," "," "," "," "," "," "," "," "," ","f","o","n","t",
    "-","f","a","m","i","l","y",":"," ","'","S","e","g","o","e"," ","U","I","'",","," ","A","r",
    "i","a","l",","," ","s","a","n","s","-","s","e","r","i","f",";","\n"," "," "," "," "," ",
    " "," "," "," "," "," "," "," "," ","f","o","n","t","-","s","i","z","e",":"," ","1","2","p",
    "t",";","\n"," "," "," "," "," "," "," "," "," "," "," "," "," "," ","c","o","l","o","r",
    ":"," ","#","0","0","0",";","\n"," "," "," "," "," "," "," "," "," "," "," "," "," "," ",
    "b","o","r","d","e","r",":"," ","n","o","n","e",";","\n"," "," "," "," "," "," "," "," ",
    " "," "," "," ","}","\n"," "," "," "," "," "," "," "," "," "," "," "," ","t","a","b","l",
    "e"," ","{"," ","b","o","r","d","e","r","-","c","o","l","l","a","p","s","e",":"," ","c","o",
    "l","l","a","p","s","e",";"," ","w","i","d","t","h",":"," ","1","0","0","%",";"," ","}",
    "\n"," "," "," "," "," "," "," "," "," "," "," "," ","t","d",","," ","t","h"," ","{"," ",
    "b","o","r","d","e","r",":"," ","1","p","x"," ","s","o","l","i","d"," ","#","0","0","0",";",
    " ","p","a","d","d","i","n","g",":"," ","8","p","x",";"," ","w","o","r","d","-","w","r","a",
    "p",":"," ","b","r","e","a","k","-","w","o","r","d",";"," ","w","h","i","t","e","-","s","p",
    "a","c","e",":"," ","p","r","e","-","w","r","a","p",";"," ","}","\n"," "," "," "," "," ",
    " "," "," "," "," ","<","/","s","t","y","l","e",">","\n"," "," "," "," "," "," "," "," ",
    "<","/","h","e","a","d",">","\n"," "," "," "," "," "," "," "," ","<","b","o","d","y",">">>

ShellTail ==
  <<"<","/","b","o","d","y",">","\n"," "," "," "," "," "," ","<","/","h","t","m","l",">","\n",
    " "," "," "," ">>

K_html_marker == <<"<","h","t","m","l">>

\* s.includes(t)
Includes(s, t) ==
  \E k \in 1 .. Len(s) - Len(t) + 1 : SubSeq(s, k, k + Len(t) - 1) = t

\* the document handed to page.setContent
fullHtml(body) ==
  IF Includes(body.html.s, K_html_marker) THEN body.html.s
  ELSE ShellHead \o resolvedTitle(body) \o ShellMid \o body.html.s \o ShellTail

\* ------------------------------------------------------------- inputs
K_html_p == <<"<","p",">","x","<","/","p",">">>
Body(html, reportType, folder, reportTitle) ==
  [html |-> html, reportType |-> reportType, folder |-> folder, reportTitle |-> reportTitle]

\* request bodies of the pipeline system: a taxonomy key, a raw folder, an
\* inherited property name, html that is not a string, no classification, no html
SubmitBodies ==
  { Body(Str(K_html_p), Str(K_liquid_ir), Undefined, Undefined),
    Body(Str(K_html_p), Undefined, Num(<<"3">>), Undefined),
    Body(Str(K_html_p), Str(K_constructor), Undefined, Undefined),
    Body(Num(<<"5">>), Str(K_liquid_ir), Undefined, Undefined),
    Body(Str(K_html_p), Undefined, Undefined, Undefined),
    Body(Undefined, Str(K_liquid_ir), Undefined, Undefined) }

\* the one request body of the race system (and of the store system)
RaceBodies == { Body(Str(K_html_p), Str(K_liquid_ir), Undefined, Undefined) }

\* the bodies of the listing system: one classified by its key into folder 1,
\* one by its raw folder into folder 2
ListBodies ==
  { Body(Str(K_html_p), Str(K_liquid_ir), Undefined, Undefined),
    Body(Str(K_html_p), Undefined, Num(<<"2">>), Undefined) }

\* html values of the document system: a fragment, a complete document, a
\* complete document with a doctype, a fragment with the text <html inside, a
\* complete document with its root in capitals
K_html_doc == <<"<","h","t","m","l",">","<","b","o","d","y",">","x","<","/","b","o","d","y",">","<","/","h","t","m","l",">">>
K_html_doctype == <<"<","!","D","O","C","T","Y","P","E"," ","h","t","m","l",">","\n">> \o K_html_doc
K_html_mention == <<"<","p",">","a","n"," ","<","h","t","m","l",">"," ","t","a","g","<","/","p",">">>
K_html_upper == <<"<","H","T","M","L",">","<","B","O","D","Y",">","x","<","/","B","O","D","Y",">","<","/","H","T","M","L",">">>
DocumentHtmls == {K_html_p, K_html_doc, K_html_doctype, K_html_mention, K_html_upper}

\* reportTitle values of the document system: absent, plain, with angle
\* brackets, with opening brackets only, one character longer than the cap, a
\* number
K_title_plain == <<"Q","1">>
K_title_tag == <<"a","<","b",">","c">>
K_title_open == <<"<","<","x">>
K_title_long == [k \in 1 .. TitleCap + 1 |-> IF k = 2 THEN "<" ELSE "a"]
DocumentTitles ==
  {Undefined, Str(K_title_plain), Str(K_title_tag), Str(K_title_open), Str(K_title_long), Num(<<"7">>)}

\* reportType values of the document system: a taxonomy key, or absent (with
\* the raw folder 2)
DocumentBodies ==
  {Body(Str(h), Str(K_liquid_ir), Undefined, t) : h \in DocumentHtmls, t \in DocumentTitles}
  \cup {Body(Str(h), Undefined, Num(<<"2">>), t) : h \in DocumentHtmls, t \in DocumentTitles}

\* reportType values of the classification system: every taxonomy key, absent,
\* empty, unknown, a number, inherited property names
ClassifyReportTypes ==
  {Str(k) : k \in DOMAIN reportTypeToFolderOwn}
  \cup {Undefined, Null, Str(<<>>), Str(<<"l","i","q","u","i","d">>), Num(<<"1">>),
        Str(K_constructor), Str(K_toString), Str(K_proto)}

\* folder values of the classification system: absent, numbers and strings in
\* and out of range,
\* fractions, trailing text, white space
ClassifyFolders ==
  {Undefined, Null,
   Num(<<"0">>), Num(<<"1">>), Num(<<"7">>), Num(<<"1","5">>), Num(<<"1","6">>),
   Num(<<"-","1">>), Num(<<"3",".","5">>),
   Str(<<"7">>), Str(<<"1","5">>), Str(<<"1","6">>), Str(<<"0">>), Str(<<" ","7"," ">>),
   Str(<<"3","a","b","c">>), Str(<<"a","b","c">>), Str(<<>>), Str(<<" "," ">>)}

ClassifyBodies ==
  {Body(h, t, f, Undefined) : h \in {Str(K_html_p), Undefined},
                              t \in ClassifyReportTypes, f \in ClassifyFolders}

\* Authorization headers: none, one whose token fails jwt.verify, a good one
AuthHeaders == {"absent", "invalid", "valid"}

\* Authorization headers of the authentication system: none, a scheme without
\* a token, a token that is no JWT, an expired one, one signed with another
\* secret, a good one
TokenHeaders == {"absent", "schemeOnly", "malformed", "expired", "missigned", "valid"}

\* :fileId parameters: 0 is a string new ObjectId() rejects, k > 0 is the hex
\* form of the k-th ObjectId the process generates
FileIdParams == 0 .. MaxSubmits + 1

\* ?folder= query values of /all-reports
ListQueries == {Undefined, Str(<<"1">>), Str(<<"2">>)}

Submits == 1 .. MaxSubmits
Racers == 1 .. MaxRacers
Deletes == 1 .. MaxDeletes

\* -------------------------------------------------------------- state
VARIABLES
  alive,     \* the node process is running
  bucket,    \* "unset" until MongoClient.connect resolves (db and bucket), then "set"
  now,       \* Date.now()
  issued,    \* number of ObjectIds generated so far
  files,     \* reports.files: _id -> [filename, folder, uploadDate]
  chunks,    \* the files_id values present in reports.chunks
  sub,       \* POST /submit-report requests
  del,       \* DELETE /delete-report/:fileId requests
  rd,        \* the GET /get-pdf/:fileId request
  ls         \* the GET /all-reports request

vars == <<alive, bucket, now, issued, files, chunks, sub, del, rd, ls>>

NoBody == Body(Undefined, Undefined, Undefined, Undefined)
Response(status, fileId) == [status |-> status, fileId |-> fileId]

IdleSubmit ==
  [pc |-> "idle", authorization |-> "absent", body |-> NoBody, folderNumber |-> Null, browser |-> "none",
   media |-> "default", filename |-> <<>>, fileId |-> 0, resp |-> <<>>]
IdleDelete == [pc |-> "idle", authorization |-> "absent", param |-> 0, found |-> FALSE, resp |-> <<>>]
IdleRead == [pc |-> "idle", authorization |-> "absent", param |-> 0, resp |-> <<>>]
IdleList == [pc |-> "idle", authorization |-> "absent", query |-> Undefined, resp |-> <<>>, body |-> <<>>]

Init ==
  /\ alive = TRUE
  /\ bucket = "unset"
  /\ now = 1
  /\ issued = 0
  /\ files = [i \in {} |-> 0]
  /\ chunks = {}
  /\ sub = [r \in Submits \cup Racers |-> IdleSubmit]
  /\ del = [d \in Deletes |-> IdleDelete]
  /\ rd = IdleRead
  /\ ls = IdleList

\* ------------------------------------------------- process and clock
\* MongoClient.connect resolves: db and bucket are assigned
Connect ==
  /\ alive /\ bucket = "unset"
  /\ bucket' = "set"
  /\ UNCHANGED <<alive, now, issued, files, chunks, sub, del, rd, ls>>

\* MongoClient.connect rejects: process.exit(1)
ConnectFail ==
  /\ alive /\ bucket = "unset"
  /\ alive' = FALSE
  /\ UNCHANGED <<bucket, now, issued, files, chunks, sub, del, rd, ls>>

\* a millisecond passes
Tick ==
  /\ alive /\ now < MaxClock
  /\ now' = now + 1
  /\ UNCHANGED <<alive, bucket, issued, files, chunks, sub, del, rd, ls>>

\* jwt.verify with ignoreExpiration: an expired token passes
authMiddlewareIgnoreExpiration(authorization) ==
  IF authorization \in {"absent", "schemeOnly"} THEN "No token"
  ELSE IF authorization \notin {"valid", "expired"} THEN "Invalid token"
  ELSE "next"

\* authMiddleware: "next" or the 401 it answers
authMiddleware(authorization) ==
  IF authorization \in {"absent", "schemeOnly"} THEN "No token"
  ELSE IF authorization # "valid" THEN "Invalid token"
  ELSE "next"

\* res.json / res.status(..).json: the response is recorded and the request ends
Respond(s, status, fileId) ==
  [s EXCEPT !.pc = "done", !.resp = Append(@, Response(status, fileId))]

\* ------------------------------------------------------------ submit
\* a response of the submit handler
SubmitRespond(s, status, fileId) == Respond(s, status, fileId)

\* the catch block of the submit handler
SubmitCatch(s) == SubmitRespond(s, 500, 0)

\* express.json has parsed the body of a POST /submit-report
SubmitArrive(r, authorization, body) ==
  /\ alive /\ sub[r].pc = "idle"
  /\ sub' = [sub EXCEPT ![r] = [@ EXCEPT !.authorization = authorization, !.body = body,
                                         !.pc = "received"]]
  /\ UNCHANGED <<alive, bucket, now, issued, files, chunks, del, rd, ls>>

\* the handler with the browser launched and closed ahead of validation
SubmitHandleLaunchFirst(r) ==
  /\ alive /\ sub[r].pc = "received"
  /\ LET s == sub[r]
         fn == folderNumber(s.body.reportType, s.body.folder)
     IN sub' = [sub EXCEPT ![r] =
          IF authMiddleware(s.authorization) # "next" THEN SubmitRespond(s, 401, 0)
          ELSE IF ~Truthy(s.body.html) THEN SubmitRespond([s EXCEPT !.browser = "closed"], 400, 0)
          ELSE IF ~Truthy(fn) THEN SubmitRespond([s EXCEPT !.browser = "closed"], 400, 0)
          ELSE [s EXCEPT !.folderNumber = fn, !.pc = "launch"]]
  /\ UNCHANGED <<alive, bucket, now, issued, files, chunks, del, rd, ls>>

\* authMiddleware, then the handler up to its first await (the launch)
SubmitHandle(r) ==
  /\ alive /\ sub[r].pc = "received"
  /\ LET s == sub[r]
         fn == folderNumber(s.body.reportType, s.body.folder)
     IN sub' = [sub EXCEPT ![r] =
          IF authMiddleware(s.authorization) # "next" THEN SubmitRespond(s, 401, 0)
          ELSE IF ~Truthy(s.body.html) THEN SubmitRespond(s, 400, 0)
          ELSE IF ~Truthy(fn) THEN SubmitRespond(s, 400, 0)
          ELSE [s EXCEPT !.folderNumber = fn, !.pc = "launch"]]
  /\ UNCHANGED <<alive, bucket, now, issued, files, chunks, del, rd, ls>>

\* await playwright.chromium.launch(...)
SubmitLaunch(r) ==
  /\ alive /\ sub[r].pc = "launch"
  /\ \E ok \in BOOLEAN :
       sub' = [sub EXCEPT ![r] =
          IF ok THEN [@ EXCEPT !.browser = "open", !.pc = "newContext"]
          ELSE SubmitCatch(@)]
  /\ UNCHANGED <<alive, bucket, now, issued, files, chunks, del, rd, ls>>

\* await browser.newContext()
SubmitNewContext(r) ==
  /\ alive /\ sub[r].pc = "newContext"
  /\ \E ok \in BOOLEAN :
       sub' = [sub EXCEPT ![r] =
          IF ok THEN [@ EXCEPT !.pc = "newPage"] ELSE SubmitCatch(@)]
  /\ UNCHANGED <<alive, bucket, now, issued, files, chunks, del, rd, ls>>

\* await context.newPage(); then resolvedTitle and fullHtml are computed
\* (html.includes throws a TypeError when html is not a string) and
\* page.setContent is called
SubmitNewPage(r) ==
  /\ alive /\ sub[r].pc = "newPage"
  /\ \E ok \in BOOLEAN :
       sub' = [sub EXCEPT ![r] =
          IF ok /\ @.body.html.t = "string" THEN [@ EXCEPT !.pc = "setContent"]
          ELSE SubmitCatch(@)]
  /\ UNCHANGED <<alive, bucket, now, issued, files, chunks, del, rd, ls>>

\* await page.setContent(fullHtml, { waitUntil: "networkidle" })
SubmitSetContent(r) ==
  /\ alive /\ sub[r].pc = "setContent"
  /\ \E ok \in BOOLEAN :
       sub' = [sub EXCEPT ![r] =
          IF ok THEN [@ EXCEPT !.pc = "emulateMedia"] ELSE SubmitCatch(@)]
  /\ UNCHANGED <<alive, bucket, now, issued, files, chunks, del, rd, ls>>

\* await page.emulateMedia({ media: 'screen' })
SubmitEmulateMedia(r) ==
  /\ alive /\ sub[r].pc = "emulateMedia"
  /\ \E ok \in BOOLEAN :
       sub' = [sub EXCEPT ![r] =
          IF ok THEN [@ EXCEPT !.media = "screen", !.pc = "waitForTimeout"]
          ELSE SubmitCatch(@)]
  /\ UNCHANGED <<alive, bucket, now, issued, files, chunks, del, rd, ls>>

\* await page.waitForTimeout(500)
SubmitWaitForTimeout(r) ==
  /\ alive /\ sub[r].pc = "waitForTimeout"
  /\ \E ok \in BOOLEAN :
       sub' = [sub EXCEPT ![r] =
          IF ok THEN [@ EXCEPT !.pc = "pdf"] ELSE SubmitCatch(@)]
  /\ UNCHANGED <<alive, bucket, now, issued, files, chunks, del, rd, ls>>

\* await page.pdf(...)
SubmitPdf(r) ==
  /\ alive /\ sub[r].pc = "pdf"
  /\ \E ok \in BOOLEAN :
       sub' = [sub EXCEPT ![r] =
          IF ok THEN [@ EXCEPT !.pc = "close"] ELSE SubmitCatch(@)]
  /\ UNCHANGED <<alive, bucket, now, issued, files, chunks, del, rd, ls>>

\* await browser.close(); then the file name is derived from Date.now() and
\* bucket.openUploadStream generates the ObjectId (a TypeError while bucket is
\* still undefined) and uploadStream.end(pdfBuffer, callback) starts the write
SubmitClose(r) ==
  /\ alive /\ sub[r].pc = "close"
  /\ \E ok \in BOOLEAN :
       IF ~ok
       THEN /\ sub' = [sub EXCEPT ![r] = SubmitCatch(@)]
            /\ UNCHANGED issued
       ELSE IF bucket = "unset"
       THEN /\ sub' = [sub EXCEPT ![r] = SubmitCatch([@ EXCEPT !.browser = "closed"])]
            /\ UNCHANGED issued
       ELSE /\ sub' = [sub EXCEPT ![r] =
                 [@ EXCEPT !.browser = "closed",
                           !.filename = filename(sub[r].body, now),
                           !.fileId = issued + 1,
                           !.pc = "uploadChunks"]]
            /\ issued' = issued + 1
  /\ UNCHANGED <<alive, bucket, now, files, chunks, del, rd, ls>>

\* --------------------------------------------------------- blob store
\* the reports.files document written when the upload stream finishes
FileDoc(name, folder, date) == [filename |-> name, folder |-> bsonFolder(folder), uploadDate |-> date]

\* an insertOne that records nothing
InsertFileDropped(fs, id, doc) == fs

\* reports.files after insertOne of the document of file id
InsertFile(fs, id, doc) == [i \in DOMAIN fs \cup {id} |-> IF i = id THEN doc ELSE fs[i]]

\* a deleteOne that matches nothing: the files document stays
RemoveFileKept(fs, id) == fs

\* reports.files after deleteOne({ _id: id })
RemoveFile(fs, id) == [i \in DOMAIN fs \ {id} |-> fs[i]]

\* reports.files after an upload of file id failed (stream error at a chunk
\* insert or at the insert of the files document): nothing was recorded
FailedWrite(fs, id) == fs

\* the handler answering with uploadStream.id without waiting for the callback:
\* the response leaves while the files document is not written
SubmitUploadChunksEarlyAnswer(r) ==
  /\ alive /\ sub[r].pc = "uploadChunks"
  /\ chunks' = chunks \cup {sub[r].fileId}
  /\ sub' = [sub EXCEPT ![r] = SubmitRespond(@, 200, @.fileId)]
  /\ UNCHANGED <<alive, bucket, now, issued, files, del, rd, ls>>

\* the upload stream inserts the chunk documents; on an error the callback
\* passed to uploadStream.end answers 500
SubmitUploadChunks(r) ==
  /\ alive /\ sub[r].pc = "uploadChunks"
  /\ \E ok \in BOOLEAN, partial \in BOOLEAN :
       IF ok
       THEN /\ chunks' = chunks \cup {sub[r].fileId}
            /\ files' = files
            /\ sub' = [sub EXCEPT ![r] = [@ EXCEPT !.pc = "uploadFiles"]]
       ELSE /\ chunks' = IF partial THEN chunks \cup {sub[r].fileId} ELSE chunks
            /\ files' = FailedWrite(files, sub[r].fileId)
            /\ sub' = [sub EXCEPT ![r] = SubmitRespond(@, 500, 0)]
  /\ UNCHANGED <<alive, bucket, now, issued, del, rd, ls>>

\* the upload stream inserts the files document (uploadDate is the time of the
\* insert); on an error the callback answers 500
SubmitUploadFiles(r) ==
  /\ alive /\ sub[r].pc = "uploadFiles"
  /\ \E ok \in BOOLEAN :
       IF ok
       THEN /\ files' = InsertFile(files, sub[r].fileId,
                           FileDoc(sub[r].filename, sub[r].folderNumber, now))
            /\ sub' = [sub EXCEPT ![r] = [@ EXCEPT !.pc = "uploadCallback"]]
       ELSE /\ files' = FailedWrite(files, sub[r].fileId)
            /\ sub' = [sub EXCEPT ![r] = SubmitRespond(@, 500, 0)]
  /\ UNCHANGED <<alive, bucket, now, issued, chunks, del, rd, ls>>

\* the callback with its error test inverted: a finished upload is answered 500
SubmitUploadCallbackInverted(r) ==
  /\ alive /\ sub[r].pc = "uploadCallback"
  /\ sub' = [sub EXCEPT ![r] = SubmitRespond(@, 500, 0)]
  /\ UNCHANGED <<alive, bucket, now, issued, files, chunks, del, rd, ls>>

\* the callback of uploadStream.end without an error: res.json({ fileId })
SubmitUploadCallback(r) ==
  /\ alive /\ sub[r].pc = "uploadCallback"
  /\ sub' = [sub EXCEPT ![r] = SubmitRespond(@, 200, @.fileId)]
  /\ UNCHANGED <<alive, bucket, now, issued, files, chunks, del, rd, ls>>

\* ------------------------------------------------------------- delete
\* the request arrives: authMiddleware, new ObjectId(param) (throws on a
\* malformed string), bucket.delete(fileId) is called (TypeError while bucket
\* is undefined)
DeleteRecv(d, authorization, p) ==
  /\ alive /\ del[d].pc = "idle"
  /\ del' = [del EXCEPT ![d] =
       LET s == [@ EXCEPT !.authorization = authorization, !.param = p]
       IN IF authMiddleware(authorization) # "next" THEN Respond(s, 401, 0)
          ELSE IF p = 0 \/ bucket = "unset" THEN Respond(s, 500, 0)
          ELSE [s EXCEPT !.pc = "deleting"]]
  /\ UNCHANGED <<alive, bucket, now, issued, files, chunks, sub, rd, ls>>

\* bucket.delete at the store: deleteOne on reports.files, deleteMany on
\* reports.chunks; it reports whether a files document was deleted
DeleteStore(d) ==
  /\ alive /\ del[d].pc = "deleting"
  /\ files' = RemoveFile(files, del[d].param)
  /\ chunks' = chunks \ {del[d].param}
  /\ del' = [del EXCEPT ![d] = [@ EXCEPT !.found = (del[d].param \in DOMAIN files),
                                         !.pc = "deleted"]]
  /\ UNCHANGED <<alive, bucket, now, issued, sub, rd, ls>>

\* the delete handler with the rejection swallowed: it always answers 200
DeleteDoneAlwaysOk(d) ==
  /\ alive /\ del[d].pc = "deleted"
  /\ del' = [del EXCEPT ![d] = Respond(@, 200, 0)]
  /\ UNCHANGED <<alive, bucket, now, issued, files, chunks, sub, rd, ls>>

\* await bucket.delete resolves (200) or rejects with "File not found" (catch: 500)
DeleteDone(d) ==
  /\ alive /\ del[d].pc = "deleted"
  /\ del' = [del EXCEPT ![d] = Respond(@, IF @.found THEN 200 ELSE 500, 0)]
  /\ UNCHANGED <<alive, bucket, now, issued, files, chunks, sub, rd, ls>>

\* the read handler with the download stream opened whether or not the
\* bucket is assigned
ReadRecvUnchecked(authorization, p) ==
  /\ alive /\ rd.pc = "idle"
  /\ rd' = LET s == [rd EXCEPT !.authorization = authorization, !.param = p]
           IN IF p = 0 THEN Respond(s, 500, 0)
              ELSE [s EXCEPT !.pc = "streaming"]
  /\ UNCHANGED <<alive, bucket, now, issued, files, chunks, sub, del, ls>>

\* --------------------------------------------------------------- read
\* the request arrives (no authMiddleware: the Authorization header, if any, is
\* not looked at): new ObjectId(param),
\* bucket.openDownloadStream(fileId), Content-Type is set, the stream is piped
ReadRecv(authorization, p) ==
  /\ alive /\ rd.pc = "idle"
  /\ rd' = LET s == [rd EXCEPT !.authorization = authorization, !.param = p]
           IN IF p = 0 \/ bucket = "unset" THEN Respond(s, 500, 0)
              ELSE [s EXCEPT !.pc = "streaming"]
  /\ UNCHANGED <<alive, bucket, now, issued, files, chunks, sub, del, ls>>

\* the download stream looks the file up: found, the PDF is piped to the
\* response; not found, the stream emits 'error', which has no listener and is
\* outside the try block: the uncaught exception ends the process
ReadStream ==
  /\ alive /\ rd.pc = "streaming"
  /\ IF rd.param \in DOMAIN files
     THEN /\ rd' = Respond(rd, 200, rd.param)
          /\ alive' = alive
     ELSE /\ rd' = [rd EXCEPT !.pc = "errored"]
          /\ alive' = FALSE
  /\ UNCHANGED <<bucket, now, issued, files, chunks, sub, del, ls>>

\* the filter left out of the find: every document matches
MatchesUnfiltered(fs, query, i) == TRUE

\* --------------------------------------------------------------- list
\* the filter of /all-reports: parseInt(req.query.folder), NaN means no filter
\* (no radix is given; for the decimal queries used here the result is the same)
Matches(fs, query, i) ==
  LET folder == parseInt(query)
  IN folder.nan \/ (folder.n >= 0 /\ fs[i].folder = Num(Digits(folder.n)))

\* one element of reportList
ReportEntry(fs, i) ==
  [fileId |-> i, filename |-> fs[i].filename,
   folder |-> IF Truthy(fs[i].folder) THEN fs[i].folder ELSE Null,
   uploadDate |-> fs[i].uploadDate]

\* find(filter).sort({ uploadDate: -1 }).toArray(): every order of the
\* matching documents with uploadDate descending (ties in any order)
FindSorted(fs, query) ==
  LET ids == {i \in DOMAIN fs : Matches(fs, query, i)}
      n == Cardinality(ids)
  IN {s \in [1 .. n -> ids] :
        /\ \A a, b \in 1 .. n : a # b => s[a] # s[b]
        /\ \A a, b \in 1 .. n : a < b => fs[s[a]].uploadDate >= fs[s[b]].uploadDate}

\* the request arrives: authMiddleware, db.collection(...) (TypeError while db
\* is undefined), the query is sent
ListRecv(authorization, query) ==
  /\ alive /\ ls.pc = "idle"
  /\ ls' = LET s == [ls EXCEPT !.authorization = authorization, !.query = query]
           IN IF authMiddleware(authorization) # "next" THEN Respond(s, 401, 0)
              ELSE IF bucket = "unset" THEN Respond(s, 500, 0)
              ELSE [s EXCEPT !.pc = "finding"]
  /\ UNCHANGED <<alive, bucket, now, issued, files, chunks, sub, del, rd>>

\* the query is answered and res.json(reportList) is sent
ListFind ==
  /\ alive /\ ls.pc = "finding"
  /\ \E s \in FindSorted(files, ls.query) :
       ls' = [Respond(ls, 200, 0) EXCEPT !.body = [k \in DOMAIN s |-> ReportEntry(files, s[k])]]
  /\ UNCHANGED <<alive, bucket, now, issued, files, chunks, sub, del, rd>>

\* ------------------------------------------------------ specifications
\* the steps of submit request r after its arrival
SubmitStep(r) ==
  \/ SubmitHandle(r)
  \/ SubmitLaunch(r)
  \/ SubmitNewContext(r)
  \/ SubmitNewPage(r)
  \/ SubmitSetContent(r)
  \/ SubmitEmulateMedia(r)
  \/ SubmitWaitForTimeout(r)
  \/ SubmitPdf(r)
  \/ SubmitClose(r)
  \/ SubmitUploadChunks(r)
  \/ SubmitUploadFiles(r)
  \/ SubmitUploadCallback(r)

\* the pipeline system: the process, the clock, submits of every kind, a read
Next ==
  \/ Connect
  \/ ConnectFail
  \/ Tick
  \/ \E r \in Submits, a \in AuthHeaders, b \in SubmitBodies : SubmitArrive(r, a, b)
  \/ \E r \in Submits : SubmitStep(r)
  \/ \E p \in FileIdParams : ReadRecv("absent", p)
  \/ ReadStream

Spec == Init /\ [][Next]_vars

\* a submit that arrives while no other submit has been answered yet, so that
\* the submits run concurrently
RaceArrive(r, body) ==
  /\ \A q \in Racers : sub[q].pc # "done"
  /\ SubmitArrive(r, "valid", body)

\* the race system: concurrent submits of one and the same body, and the clock
RaceNext ==
  \/ Connect
  \/ Tick
  \/ \E r \in Racers, b \in RaceBodies : RaceArrive(r, b)
  \/ \E r \in Racers : SubmitStep(r)

RaceSpec == Init /\ [][RaceNext]_vars

\* the delete system: submits of a good body and deletes of any id
DeleteNext ==
  \/ Connect
  \/ \E r \in Submits, b \in RaceBodies : SubmitArrive(r, "valid", b)
  \/ \E r \in Submits : SubmitStep(r)
  \/ \E d \in Deletes, p \in FileIdParams : DeleteRecv(d, "valid", p)
  \/ \E d \in Deletes : DeleteStore(d)
  \/ \E d \in Deletes : DeleteDone(d)

DeleteSpec == Init /\ [][DeleteNext]_vars

\* the store system: submits of a good body, a delete, a read and a list
StoreNext ==
  \/ Connect
  \/ \E r \in Submits, b \in RaceBodies : SubmitArrive(r, "valid", b)
  \/ \E r \in Submits : SubmitStep(r)
  \/ \E p \in FileIdParams : DeleteRecv(1, "valid", p)
  \/ DeleteStore(1)
  \/ DeleteDone(1)
  \/ \E p \in FileIdParams : ReadRecv("absent", p)
  \/ ReadStream
  \/ \E q \in ListQueries : ListRecv("valid", q)
  \/ ListFind

StoreSpec == Init /\ [][StoreNext]_vars

\* the pipeline system without a failing connection, every pending step of which
\* is eventually taken: the event loop runs each continuation that is ready
FairNext ==
  \/ Connect
  \/ Tick
  \/ \E r \in Submits, a \in AuthHeaders, b \in SubmitBodies : SubmitArrive(r, a, b)
  \/ \E r \in Submits : SubmitStep(r)
  \/ \E p \in FileIdParams : ReadRecv("absent", p)
  \/ ReadStream

FairSpec ==
  /\ Init /\ [][FairNext]_vars
  /\ WF_vars(Connect)
  /\ \A r \in Submits : WF_vars(SubmitStep(r))
  /\ WF_vars(ReadStream)

\* submit classification on its own: one request of any body, up to the launch
ClassifyNext ==
  \/ \E a \in AuthHeaders, b \in ClassifyBodies : SubmitArrive(1, a, b)
  \/ SubmitHandle(1)

ClassifySpec == Init /\ [][ClassifyNext]_vars

\* the reissue system: two submits of a good body, a delete, a read and an
\* unfiltered list
AfterDeleteNext ==
  \/ Connect
  \/ \E r \in Racers, b \in RaceBodies : SubmitArrive(r, "valid", b)
  \/ \E r \in Racers : SubmitStep(r)
  \/ \E p \in FileIdParams : DeleteRecv(1, "valid", p)
  \/ DeleteStore(1)
  \/ DeleteDone(1)
  \/ \E p \in FileIdParams : ReadRecv("absent", p)
  \/ ReadStream
  \/ ListRecv("valid", Undefined)
  \/ ListFind

AfterDeleteSpec == Init /\ [][AfterDeleteNext]_vars

\* the listing system: two submits into either folder, the clock, and a list
\* with any filter
ListNext ==
  \/ Connect
  \/ Tick
  \/ \E r \in Racers, b \in ListBodies : SubmitArrive(r, "valid", b)
  \/ \E r \in Racers : SubmitStep(r)
  \/ \E q \in ListQueries : ListRecv("valid", q)
  \/ ListFind

ListSpec == Init /\ [][ListNext]_vars

\* the document system: one submit of any html and title, up to setContent
DocumentNext ==
  \/ \E b \in DocumentBodies : SubmitArrive(1, "valid", b)
  \/ SubmitHandle(1)
  \/ SubmitLaunch(1)
  \/ SubmitNewContext(1)
  \/ SubmitNewPage(1)

DocumentSpec == Init /\ [][DocumentNext]_vars

\* the authentication system: a submit, a delete, a read and an unfiltered
\* list, each with any Authorization header
AuthNext ==
  \/ Connect
  \/ \E a \in TokenHeaders, b \in RaceBodies : SubmitArrive(1, a, b)
  \/ SubmitStep(1)
  \/ \E a \in TokenHeaders, p \in FileIdParams : DeleteRecv(1, a, p)
  \/ DeleteStore(1)
  \/ DeleteDone(1)
  \/ \E a \in TokenHeaders, p \in FileIdParams : ReadRecv(a, p)
  \/ ReadStream
  \/ \E a \in TokenHeaders : ListRecv(a, Undefined)
  \/ ListFind

AuthSpec == Init /\ [][AuthNext]_vars

\* ------------------------------------------------------------- claims
\* reportType is one of the fifteen taxonomy keys
IsTaxonomyKey(reportType) ==
  reportType.t = "string" /\ reportType.s \in DOMAIN reportTypeToFolderOwn

\* folder is a number or numeric string whose integer value is in [1,15]
IsFolderInRange(folder) ==
  /\ folder.t \in {"number", "string"}
  /\ ~parseInt(folder).nan /\ parseInt(folder).n \in 1 .. 15

\* the request has been answered
Answered(s) == s.pc = "done"
\* the request passed validation and is in the render and store pipeline
InPipeline(s) == s.pc \notin {"idle", "received", "done"}

\* C2: a submit with a good token and html whose reportType is a taxonomy key
\* passes validation with folderNumber equal to the mapped folder number,
\* whatever raw folder comes with it.
C2_KeyDecidesFolder ==
  [][\A r \in DOMAIN sub :
       (/\ sub[r].pc = "received" /\ sub'[r].pc # "received"
        /\ sub[r].authorization = "valid" /\ Truthy(sub[r].body.html)
        /\ IsTaxonomyKey(sub[r].body.reportType))
       => /\ sub'[r].pc = "launch"
          /\ sub'[r].folderNumber = Num(Digits(reportTypeToFolderOwn[sub[r].body.reportType.s]))]_vars

\* a taxonomy key was classified while a different, valid raw folder was supplied
C2_Witness ==
  \E r \in DOMAIN sub :
    /\ sub[r].pc = "launch"
    /\ IsTaxonomyKey(sub[r].body.reportType)
    /\ IsFolderInRange(sub[r].body.folder)
    /\ sub[r].folderNumber # Num(Digits(parseInt(sub[r].body.folder).n))

\* C3: no submit whose reportType is absent or no taxonomy key and whose folder
\* is absent or no integer in [1,15] passes validation (it is answered 400 and no
\* folder number is resolved).
C3_UnclassifiedRejected ==
  \A r \in DOMAIN sub :
    InPipeline(sub[r]) =>
      IsTaxonomyKey(sub[r].body.reportType) \/ IsFolderInRange(sub[r].body.folder)

\* the status of the response a request received
Status(s) == s.resp[Len(s.resp)].status
\* the request was answered with this status
AnsweredWith(s, status) == Answered(s) /\ Status(s) = status

\* C1: no answered submit leaves the browser it launched open.
C1_BrowserReleased ==
  \A r \in DOMAIN sub : Answered(sub[r]) => sub[r].browser # "open"

\* the stored folder value is an integer in [1,15]
IsFolderNumber(v) == v.t = "number" /\ \E n \in 1 .. 15 : v.s = Digits(n)

\* C4: every stored artifact carries a folder that is an integer in [1,15], and
\* no step changes the folder of an artifact that stays in the store.
C4_FolderInRangeAndFixed ==
  [][/\ \A i \in DOMAIN files' : IsFolderNumber(files'[i].folder)
     /\ \A i \in DOMAIN files \cap DOMAIN files' : files'[i].folder = files[i].folder]_vars

\* the ids an unfiltered list returns
Listable(fs) == {s[k] : k \in 1 .. Cardinality(DOMAIN fs), s \in FindSorted(fs, Undefined)}

\* C5: the step that answers a submit with an error leaves the listable
\* artifacts as they were, and the file id of a submit answered with an error is
\* never listable.
C5_FailedSubmitStoresNothing ==
  [][/\ \A r \in DOMAIN sub :
          (~Answered(sub[r]) /\ Answered(sub'[r]) /\ Status(sub'[r]) # 200)
          => Listable(files') = Listable(files)
     /\ \A r \in DOMAIN sub :
          (Answered(sub'[r]) /\ Status(sub'[r]) # 200)
          => sub'[r].fileId \notin Listable(files')]_vars

\* a store write failed after some chunks were written, and was answered 500
C5_Witness ==
  \E r \in DOMAIN sub :
    /\ AnsweredWith(sub[r], 500)
    /\ sub[r].fileId # 0
    /\ sub[r].fileId \in chunks

\* C6: two concurrent submits of identical reportType and html that both
\* succeed have distinct ids and distinct file names.
C6_DistinctIdsAndNames ==
  \A r1, r2 \in DOMAIN sub :
    (/\ r1 # r2
     /\ AnsweredWith(sub[r1], 200) /\ AnsweredWith(sub[r2], 200)
     /\ sub[r1].body.reportType = sub[r2].body.reportType
     /\ sub[r1].body.html = sub[r2].body.html)
    => /\ sub[r1].fileId # sub[r2].fileId
       /\ sub[r1].filename # sub[r2].filename

\* C7: a read whose id is malformed or names no stored artifact is answered 500.
C7_ReadMissingAnswers500 ==
  [][/\ (rd.pc = "idle" /\ rd'.pc # "idle" /\ rd'.param = 0)
        => rd'.resp = <<Response(500, 0)>>
     /\ (rd.pc = "streaming" /\ rd'.pc # "streaming" /\ rd.param \notin DOMAIN files)
        => rd'.resp = <<Response(500, 0)>>]_vars

\* C8: every submit that passed authentication is eventually answered, exactly
\* once.
C8_AnsweredExactlyOnce ==
  \A r \in Submits :
    /\ [](Len(sub[r].resp) <= 1)
    /\ [](sub[r].pc = "received" /\ sub[r].authorization = "valid"
           => <>(Answered(sub[r]) /\ Len(sub[r].resp) = 1))

\* a delete of artifact i has taken effect at the store
Deleted(i) ==
  \E d \in DOMAIN del : del[d].param = i /\ del[d].pc \in {"deleted", "done"} /\ del[d].found

\* artifact i was returned by a submit and has not been deleted
Returned(i) ==
  /\ \E r \in DOMAIN sub : AnsweredWith(sub[r], 200) /\ sub[r].resp[1].fileId = i
  /\ ~Deleted(i)

\* the query selects every folder, or the folder of stored artifact i
SelectsFolderOf(query, i) ==
  parseInt(query).nan
  \/ (i \in DOMAIN files /\ parseInt(query).n >= 0 /\ files[i].folder = Num(Digits(parseInt(query).n)))

\* C9: an artifact a submit has returned and that has not been deleted is in
\* the result of every list that is answered (unfiltered, or filtered by its
\* folder), and every read of it delivers it.
C9_VisibleOnceReturned ==
  [][\A i \in 1 .. issued :
       Returned(i) =>
         /\ (ls.pc = "finding" /\ ls'.pc # "finding" /\ SelectsFolderOf(ls.query, i))
            => \E k \in DOMAIN ls'.body : ls'.body[k].fileId = i
         /\ (rd.pc = "streaming" /\ rd'.pc # "streaming" /\ rd.param = i)
            => rd'.resp = <<Response(200, i)>>]_vars

\* a returned artifact was found by a list filtered by its folder and by a read
C9_Witness ==
  \E i \in 1 .. issued :
    /\ Returned(i)
    /\ ls.pc = "done" /\ ~parseInt(ls.query).nan
    /\ \E k \in DOMAIN ls.body : ls.body[k].fileId = i
    /\ rd.resp = <<Response(200, i)>>

DeleteSucceeded(i) ==
  \E d \in DOMAIN del : del[d].param = i /\ AnsweredWith(del[d], 200)

\* C11: once a delete of artifact i has been answered with success, i is not in
\* the store, no list that is answered contains i, no read of i delivers
\* content, and no submit is given the id i.
C11_GoneAfterDelete ==
  [][\A i \in 1 .. issued :
       DeleteSucceeded(i) =>
         /\ i \notin DOMAIN files'
         /\ (ls.pc = "finding" /\ ls'.pc # "finding")
            => \A k \in DOMAIN ls'.body : ls'.body[k].fileId # i
         /\ (rd.pc = "streaming" /\ rd'.pc # "streaming" /\ rd.param = i)
            => ~AnsweredWith(rd', 200)
         /\ \A r \in DOMAIN sub : sub[r].fileId # i => sub'[r].fileId # i]_vars

\* artifact 1 was deleted with success, a later submit stored artifact 2, the
\* list answered with artifact 2 alone and the read of artifact 1 delivered nothing
C11_Witness ==
  /\ DeleteSucceeded(1)
  /\ 2 \in DOMAIN files
  /\ AnsweredWith(ls, 200) /\ Len(ls.body) = 1 /\ ls.body[1].fileId = 2
  /\ rd.param = 1 /\ rd.pc = "errored"

\* the stored artifacts a list with this query is to return: all of them when
\* no filter is given, else those whose folder is the number the query names
Selected(fs, query) ==
  IF query = Undefined THEN DOMAIN fs
  ELSE {i \in DOMAIN fs : fs[i].folder = Num(query.s)}

\* C12: an answered list, with no filter or with the filter f, returns exactly
\* the stored artifacts whose folder is f (all of them without a filter), each
\* once, with its stored filename, folder and uploadDate, ordered by uploadDate
\* descending.
C12_ListExactAndOrdered ==
  [][(ls.pc = "finding" /\ ls'.pc # "finding") =>
       /\ AnsweredWith(ls', 200)
       /\ {ls'.body[k].fileId : k \in DOMAIN ls'.body} = Selected(files, ls.query)
       /\ Len(ls'.body) = Cardinality(Selected(files, ls.query))
       /\ \A k \in DOMAIN ls'.body :
            /\ ls'.body[k].filename = files[ls'.body[k].fileId].filename
            /\ ls'.body[k].folder = files[ls'.body[k].fileId].folder
            /\ ls'.body[k].uploadDate = files[ls'.body[k].fileId].uploadDate
       /\ \A a, b \in DOMAIN ls'.body :
            a < b => ls'.body[a].uploadDate >= ls'.body[b].uploadDate]_vars

\* a list filtered by folder 1 returned one of two stored artifacts, the other
\* being of folder 2 and stored at another time
C12_Witness ==
  /\ AnsweredWith(ls, 200) /\ ls.query = Str(<<"1">>)
  /\ Len(ls.body) = 1
  /\ \E i, j \in DOMAIN files :
       /\ ls.body[1].fileId = i /\ files[i].folder = Num(<<"1">>)
       /\ files[j].folder = Num(<<"2">>)
       /\ files[j].uploadDate # files[i].uploadDate

\* C13: whenever a submit is at the PDF capture, the emulated media type of its
\* page is "print" (it was set after the load and before the settling delay).
C13_PrintMediaAtCapture ==
  \A r \in DOMAIN sub : sub[r].pc \in {"waitForTimeout", "pdf"} => sub[r].media = "print"

\* C14: a submit is answered 400 only by the validation step, ahead of the
\* launch: it has acquired no browser and no file id, and the step leaves the
\* store (files documents, chunks, issued ids) as it was.
C14_RejectedBeforeRender ==
  [][\A r \in DOMAIN sub :
       (~Answered(sub[r]) /\ AnsweredWith(sub'[r], 400))
       => /\ sub[r].pc = "received"
          /\ sub'[r].browser = "none" /\ sub'[r].fileId = 0
          /\ files' = files /\ chunks' = chunks /\ issued' = issued]_vars

\* a submit with html and no valid classification was answered 400
C14_Witness ==
  \E r \in DOMAIN sub :
    /\ AnsweredWith(sub[r], 400)
    /\ Truthy(sub[r].body.html)
    /\ sub[r].browser = "none"

\* C15: the title computed for a submit that reaches setContent, whatever its
\* reportTitle and reportType, contains neither "<" nor ">" and has at most 150
\* characters.
C15_TitleWithoutBrackets ==
  \A r \in DOMAIN sub :
    sub[r].pc = "setContent" =>
      LET safeTitle == resolvedTitle(sub[r].body)
      IN /\ \A k \in DOMAIN safeTitle : safeTitle[k] \notin {"<", ">"}
         /\ Len(safeTitle) <= 150

\* the input is a complete document: after leading white space and an optional
\* doctype declaration it starts with the root tag <html
K_doctype == <<"<","!","D","O","C","T","Y","P","E"," ","h","t","m","l",">">>
StartsWith(s, t) == Len(s) >= Len(t) /\ SubSeq(s, 1, Len(t)) = t
HasDocumentRoot(s) ==
  LET a == TrimLeft(s)
      b == IF StartsWith(a, K_doctype) THEN TrimLeft(SubSeq(a, Len(K_doctype) + 1, Len(a))) ELSE a
  IN StartsWith(b, K_html_marker)

\* the default stylesheet of the shell is in the document, around the input
K_stylesheet == <<"b","o","r","d","e","r","-","c","o","l","l","a","p","s","e",":"," ","c","o","l","l","a","p","s","e",";">>
WrappedInShell(doc, html) ==
  /\ doc # html
  /\ Includes(doc, K_stylesheet)
  /\ Includes(doc, <<"<","b","o","d","y",">">> \o html \o <<"<","/","b","o","d","y",">">>)

\* C16: the document a submit hands to setContent is its html unchanged when the
\* html is a complete document, and is the html wrapped in the shell with the
\* default stylesheet when it is not (a fragment that contains the text <html,
\* or a root in capitals, included).
C16_WrappedUnlessDocument ==
  \A r \in DOMAIN sub :
    sub[r].pc = "setContent" =>
      LET html == sub[r].body.html.s
      IN IF HasDocumentRoot(html) THEN fullHtml(sub[r].body) = html
         ELSE WrappedInShell(fullHtml(sub[r].body), html)

\* the step leaves the store as it was
StoreUnchanged == files' = files /\ chunks' = chunks /\ issued' = issued

\* C17: a submit, list or delete whose Authorization header carries no token or
\* a malformed, expired or mis-signed one is answered 401 by the step that
\* handles it, with no browser launched and the store left as it was; a read of
\* a stored artifact is delivered whatever its header.
C17_BadTokenRejected ==
  [][/\ \A r \in DOMAIN sub :
          (sub[r].pc = "received" /\ sub'[r].pc # "received" /\ sub[r].authorization # "valid")
          => (AnsweredWith(sub'[r], 401) /\ sub'[r].browser = "none" /\ StoreUnchanged)
     /\ \A d \in DOMAIN del :
          (del[d].pc = "idle" /\ del'[d].pc # "idle" /\ del'[d].authorization # "valid")
          => (AnsweredWith(del'[d], 401) /\ StoreUnchanged)
     /\ (ls.pc = "idle" /\ ls'.pc # "idle" /\ ls'.authorization # "valid")
        => (AnsweredWith(ls', 401) /\ ls'.body = <<>> /\ StoreUnchanged)
     /\ (rd.pc = "streaming" /\ rd'.pc # "streaming" /\ rd.param \in DOMAIN files)
        => AnsweredWith(rd', 200)]_vars

\* with an artifact stored, a delete of it with an expired token was answered
\* 401 and it is still stored, a list with a scheme and no token was answered
\* 401, and a read of it with no header was delivered
C17_Witness ==
  \E i \in DOMAIN files :
    /\ del[1].param = i /\ del[1].authorization = "expired" /\ AnsweredWith(del[1], 401)
    /\ ls.authorization = "schemeOnly" /\ AnsweredWith(ls, 401)
    /\ rd.authorization = "absent" /\ rd.resp = <<Response(200, i)>>

SuccessfulSubmits == {r \in DOMAIN sub : AnsweredWith(sub[r], 200)}
SuccessfulDeletes == {d \in DOMAIN del : AnsweredWith(del[d], 200)}

\* C19 as stated: the number of stored artifacts always equals the number of
\* successful submits minus the number of successful deletes.
C19_CountEqualsAnswered ==
  Cardinality(DOMAIN files) = Cardinality(SuccessfulSubmits) - Cardinality(SuccessfulDeletes)

\* the submits whose upload has completed (answered with a fileId or about to
\* be), and the deletes that removed an artifact (answered with success or about
\* to be)
CompletedUploads ==
  {r \in DOMAIN sub : sub[r].pc = "uploadCallback" \/ AnsweredWith(sub[r], 200)}
EffectiveDeletes ==
  {d \in DOMAIN del : del[d].pc \in {"deleted", "done"} /\ del[d].found}

\* C19, amended: the step that completes the upload of a submit adds exactly
\* the artifact of its file id, the store step of a delete removes at most the
\* named artifact, no step changes an artifact that stays, and the number of
\* stored artifacts always equals completed uploads minus effective deletes (so
\* it equals successful submits minus successful deletes whenever no answer is
\* pending).
C19_CountEqualsCompleted ==
  [][/\ Cardinality(DOMAIN files') = Cardinality(CompletedUploads') - Cardinality(EffectiveDeletes')
     /\ \A i \in DOMAIN files \cap DOMAIN files' : files'[i] = files[i]
     /\ \A r \in DOMAIN sub :
          (sub[r].pc = "uploadFiles" /\ sub'[r].pc = "uploadCallback")
          => (sub[r].fileId \notin DOMAIN files /\ DOMAIN files' = DOMAIN files \cup {sub[r].fileId})
     /\ \A r \in DOMAIN sub :
          (~Answered(sub[r]) /\ AnsweredWith(sub'[r], 200))
          => files' = files
     /\ \A d \in DOMAIN del :
          (del[d].pc = "deleting" /\ del'[d].pc # "deleting")
          => DOMAIN files' = DOMAIN files \ {del[d].param}
     /\ (\A r \in DOMAIN sub : sub'[r].pc # "uploadCallback") /\ (\A d \in DOMAIN del : del'[d].pc # "deleted")
        => Cardinality(DOMAIN files') = Cardinality(SuccessfulSubmits') - Cardinality(SuccessfulDeletes')]_vars

\* two submits were answered with a fileId and one of the two artifacts was
\* deleted with success: the other is the one artifact stored
C19_Witness ==
  /\ Cardinality(SuccessfulSubmits) = 2
  /\ Cardinality(SuccessfulDeletes) = 1
  /\ Cardinality(DOMAIN files) = 1
====
